---- MODULE Spec2Model ----
(***************************************************************************)
(* Model of evcouplings/visualize/taxa.py: get_taxa (which extracts the    *)
(* taxonomy identifiers of an annotation table, resolves the distinct ones *)
(* with load_taxonomy_lineage and joins the ranks back), followed by       *)
(* sunburst on the table get_taxa returned.                                *)
(*                                                                         *)
(* Strings that the code takes apart (the "Tax" annotation, the tax_ID     *)
(* handed to int()) are sequences of one-character strings.  The alphabet  *)
(* is letters, digits and "=": no whitespace, sign or underscore, which    *)
(* int() would also accept.  A missing value (None / NaN) is Absent.       *)
(* The NCBI database is the environment: the node table (rank and name of  *)
(* a node) is fixed, the lineage table db is chosen in Init, and the       *)
(* iteration order of the dict that get_rank returns is chosen at each     *)
(* call, since the code does not fix it.                                   *)
(***************************************************************************)
EXTENDS Integers, Sequences, FiniteSets, TLC

VARIABLES
    pc,                     \* control point of get_taxa / sunburst
    annotation,             \* the caller's table (get_taxa's argument)
    db,                     \* NCBI lineage table: taxid -> ancestor chain, or NoEntry
    tax_ids,                \* get_taxa: the distinct identifiers (line 146)
    i,                      \* load_taxonomy_lineage: position of the for loop (line 72)
    rank_sequencevalue_hm,  \* load_taxonomy_lineage: rank -> list of values (line 62)
    lineage,                \* loop local: result of get_lineage (line 74)
    lineageid_rank_items,   \* loop local: items() of get_rank's dict, in its order (line 78)
    taxs,                   \* get_taxa: the resolver's table, then the concatenated one
    enriched,               \* the table get_taxa returns; sunburst's annotation
    chart,                  \* arguments of the px.sunburst call (line 201)
    lookups,                \* the get_lineage requests issued, in order
    warnings,               \* identifiers for which a warning was printed (line 91)
    resolved                \* identifier -> the Rank Record the loop body built for it

vars == <<pc, annotation, db, tax_ids, i, rank_sequencevalue_hm, lineage,
          lineageid_rank_items, taxs, enriched, chart, lookups, warnings, resolved>>

\* Largest number of rows of the input table.
MaxRows == 3

\* ------------------------------------------------------------------ values

\* None / NaN.
Absent == "<absent>"

\* Keys of rank_sequencevalue_hm, in insertion order.
RankOrder ==
    <<"superkingdom", "phylum", "genus", "class", "subphylum", "family", "order", "species">>

Ranks == {RankOrder[k] : k \in DOMAIN RankOrder}

SUNBURST_HIERARCHY == <<"superkingdom", "phylum", "order">>

\* Hierarchy paths a caller passes to sunburst.
Hiers == {SUNBURST_HIERARCHY, <<"superkingdom", "phylum">>, <<"phylum">>}

\* Values of the "Tax" column: an identifier after the last of two "=", one
\* with no "=" before it, and one after an "=" that is not a number.
TaxValues ==
    { <<"O", "=", "T", "=", "1">>, <<"2">>, <<"T", "=", "x">> }

\* ---------------------------------------------------------------- NCBI data

\* Node table of the taxonomy: a node has one rank label and one name.  Two
\* nodes share a recognised rank, one has a rank outside the recognised set.
NodeIds == {"n1", "n2", "n3"}

NodeRank == [n \in NodeIds |->
    CASE n = "n1" -> "no rank" [] n = "n2" -> "phylum" [] n = "n3" -> "phylum"]

NodeName == [n \in NodeIds |->
    CASE n = "n1" -> "root" [] n = "n2" -> "Chordata" [] n = "n3" -> "Arthropoda"]

\* What db holds for a taxid the database does not know: no chain.
NoEntry == <<>>

\* An ancestor chain: a non-empty sequence of distinct nodes.
Chains ==
    UNION { { c \in [1..n -> NodeIds] : \A a, b \in 1..n : a # b => c[a] # c[b] }
            : n \in 1..Cardinality(NodeIds) }

\* The orders in which a dict keyed by the nodes of chain c can be iterated.
ItemOrders(c) ==
    { p \in [1..Len(c) -> NodeIds] : \A n \in NodeIds :
        Cardinality({k \in 1..Len(p) : p[k] = n}) = Cardinality({k \in 1..Len(c) : c[k] = n}) }

\* ------------------------------------------------------------ str and int

\* str.split(sep): the segments of s between occurrences of sep.
RECURSIVE Split(_, _)
Split(s, sep) ==
    IF \A k \in 1..Len(s) : s[k] # sep
    THEN <<s>>
    ELSE LET k == CHOOSE j \in 1..Len(s) : s[j] = sep /\ \A h \in 1..(j-1) : s[h] # sep
         IN <<SubSeq(s, 1, k - 1)>> \o Split(SubSeq(s, k + 1, Len(s)), sep)

ExtractTaxIdFirst(tax) == Split(tax, "=")[1]

\* annotation['Tax'].str.split('=').str[-1]
ExtractTaxId(tax) == LET parts == Split(tax, "=") IN parts[Len(parts)]

Digits == <<"0", "1", "2", "3", "4", "5", "6", "7", "8", "9">>

IsDigit(ch) == \E d \in DOMAIN Digits : Digits[d] = ch

\* int(s) raises ValueError unless s is a non-empty digit string.
IntRaisesValueError(s) == s = <<>> \/ \E k \in 1..Len(s) : ~IsDigit(s[k])

RECURSIVE PyInt(_)
PyInt(s) ==
    IF s = <<>> THEN 0
    ELSE 10 * PyInt(SubSeq(s, 1, Len(s) - 1))
         + ((CHOOSE d \in DOMAIN Digits : Digits[d] = s[Len(s)]) - 1)

\* The integers the identifiers of TaxValues stand for: the keys of db.
TaxIdInts ==
    { PyInt(ExtractTaxId(t)) : t \in { u \in TaxValues : ~IntRaisesValueError(ExtractTaxId(u)) } }

\* ncbi.get_lineage(int(tax_id)) raises ValueError: int() does, or the taxid is not found.
LookupRaises(tax_id) ==
    IF IntRaisesValueError(tax_id) THEN TRUE ELSE db[PyInt(tax_id)] = NoEntry

\* ----------------------------------------------------------------- tables

UniqueNoDedup(s) == s

\* Series.unique().tolist(): the distinct values in order of first occurrence.
RECURSIVE Unique(_)
Unique(s) ==
    IF s = <<>> THEN <<>>
    ELSE LET front == Unique(SubSeq(s, 1, Len(s) - 1))
             x == s[Len(s)]
         IN IF \E k \in 1..Len(front) : front[k] = x THEN front ELSE Append(front, x)

RankLineageidDictFirstWins(items) ==
    [r \in {NodeRank[items[k]] : k \in 1..Len(items)} |->
        items[CHOOSE k \in 1..Len(items) :
            NodeRank[items[k]] = r /\ \A h \in 1..(k-1) : NodeRank[items[h]] # r]]

\* dict((v, k) for k, v in lineageid_rank_dict.items()): built by insertion in
\* the order of items, a later item replacing an earlier one with the same rank.
RECURSIVE RankLineageidDict(_)
RankLineageidDict(items) ==
    IF items = <<>> THEN [r \in {} |-> Absent]
    ELSE LET prev == RankLineageidDict(SubSeq(items, 1, Len(items) - 1))
             node == items[Len(items)]
         IN [r \in (DOMAIN prev) \cup {NodeRank[node]} |->
                IF r = NodeRank[node] THEN node ELSE prev[r]]

SequenceValueForRankAlways(rank, rank_lineageid_dict) ==
    IF rank \in DOMAIN rank_lineageid_dict
    THEN NodeName[rank_lineageid_dict[rank]]
    ELSE NodeName[CHOOSE n \in NodeIds : TRUE]

\* Lines 83-86: the value appended for one rank.
SequenceValueForRank(rank, rank_lineageid_dict) ==
    IF rank \in DOMAIN rank_lineageid_dict
    THEN NodeName[rank_lineageid_dict[rank]]
    ELSE Absent

\* Lines 82-89 for one identifier: the values appended, by rank.
RankRecord(items) ==
    LET rank_lineageid_dict == RankLineageidDict(items)
    IN [rank \in Ranks |-> SequenceValueForRank(rank, rank_lineageid_dict)]

\* pd.DataFrame.from_dict(rank_sequencevalue_hm): row k holds the k-th value of each list.
FromDict(hm) ==
    [k \in 1..Len(hm[RankOrder[1]]) |-> [rank \in Ranks |-> hm[rank][k]]]

AbsentRanks == [rank \in Ranks |-> Absent]

Max(a, b) == IF a >= b THEN a ELSE b

ConcatShifted(ids, table) ==
    [k \in 1..Max(Len(ids), Len(table)) |->
        [tax_ID |-> IF k <= Len(ids) THEN ids[k] ELSE Absent]
        @@ (IF k + 1 <= Len(table) THEN table[k + 1] ELSE AbsentRanks)]

\* pd.concat([pd.Series(tax_ids, name='tax_ID'), taxs], axis=1): both have the
\* default index, so the k-th identifier is put beside the k-th row of taxs.
Concat(ids, table) ==
    [k \in 1..Max(Len(ids), Len(table)) |->
        [tax_ID |-> IF k <= Len(ids) THEN ids[k] ELSE Absent]
        @@ (IF k <= Len(table) THEN table[k] ELSE AbsentRanks)]

RECURSIVE MergeInner(_, _)
MergeInner(left, right) ==
    IF left = <<>> THEN <<>>
    ELSE LET row == left[Len(left)]
             matches == SelectSeq(right, LAMBDA t : t.tax_ID = row.tax_ID
                                                    /\ \E rank \in Ranks : t[rank] # Absent)
         IN MergeInner(SubSeq(left, 1, Len(left) - 1), right)
            \o [k \in 1..Len(matches) |-> row @@ matches[k]]

\* annotation.merge(taxs, on='tax_ID', how='left'): each row of left, in order,
\* once per row of right with its tax_ID, or once with absent values if none.
RECURSIVE MergeLeft(_, _)
MergeLeft(left, right) ==
    IF left = <<>> THEN <<>>
    ELSE LET row == left[Len(left)]
             matches == SelectSeq(right, LAMBDA t : t.tax_ID = row.tax_ID)
         IN MergeLeft(SubSeq(left, 1, Len(left) - 1), right)
            \o (IF matches = <<>> THEN <<row @@ AbsentRanks>>
                ELSE [k \in 1..Len(matches) |-> row @@ matches[k]])

FillnaTopRank(table, value) ==
    [k \in 1..Len(table) |->
        [col \in DOMAIN table[k] |->
            IF table[k][col] = Absent /\ col = SUNBURST_HIERARCHY[1]
            THEN value ELSE table[k][col]]]

\* annotation.fillna(value): every absent cell of the table becomes value.
Fillna(table, value) ==
    [k \in 1..Len(table) |->
        [col \in DOMAIN table[k] |->
            IF table[k][col] = Absent THEN value ELSE table[k][col]]]

ExceptBreaks(k, n) == n + 1

\* Lines 90-91: the handler falls through to the next iteration of the loop.
AfterValueError(k, n) == k + 1

\* ------------------------------------------------------------------ actions

Init ==
    /\ pc = "extract"
    /\ annotation \in { [k \in 1..Len(f) |-> [Tax |-> f[k]]] :
                        f \in UNION { [1..n -> TaxValues] : n \in 0..MaxRows } }
    /\ db \in [TaxIdInts -> Chains \cup {NoEntry}]
    /\ tax_ids = <<>>
    /\ i = 1
    /\ rank_sequencevalue_hm = [rank \in Ranks |-> <<>>]
    /\ lineage = <<>>
    /\ lineageid_rank_items = <<>>
    /\ taxs = <<>>
    /\ enriched = <<>>
    /\ chart = <<>>
    /\ lookups = <<>>
    /\ warnings = <<>>
    /\ resolved = <<>>

\* Line 124.
Extract ==
    /\ pc = "extract"
    /\ annotation' = [k \in 1..Len(annotation) |->
                        annotation[k] @@ [tax_ID |-> ExtractTaxId(annotation[k].Tax)]]
    /\ pc' = "unique"
    /\ UNCHANGED <<db, tax_ids, i, rank_sequencevalue_hm, lineage, lineageid_rank_items,
                   taxs, enriched, chart, lookups, warnings, resolved>>

\* Line 146, and the entry of load_taxonomy_lineage (lines 62-71).
UniqueIds ==
    /\ pc = "unique"
    /\ tax_ids' = Unique([k \in 1..Len(annotation) |-> annotation[k].tax_ID])
    /\ rank_sequencevalue_hm' = [rank \in Ranks |-> <<>>]
    /\ i' = 1
    /\ pc' = "lookup"
    /\ UNCHANGED <<annotation, db, lineage, lineageid_rank_items, taxs, enriched, chart,
                   lookups, warnings, resolved>>

\* Lines 73-89 for an identifier the database resolves.
LookupResolved ==
    /\ pc = "lookup"
    /\ i <= Len(tax_ids)
    /\ ~IntRaisesValueError(tax_ids[i])
    /\ lookups' = Append(lookups, PyInt(tax_ids[i]))
    /\ db[PyInt(tax_ids[i])] # NoEntry
    /\ lineage' = db[PyInt(tax_ids[i])]
    /\ \E items \in ItemOrders(db[PyInt(tax_ids[i])]) :
          /\ lineageid_rank_items' = items
          /\ rank_sequencevalue_hm' =
                [rank \in Ranks |-> Append(rank_sequencevalue_hm[rank], RankRecord(items)[rank])]
          /\ resolved' = (tax_ids[i] :> RankRecord(items)) @@ resolved
    /\ i' = i + 1
    /\ UNCHANGED <<pc, annotation, db, tax_ids, taxs, enriched, chart, warnings>>

\* Lines 74, 90-91 for an identifier whose lookup raises ValueError: in int(),
\* before any request, or in get_lineage.
LookupValueError ==
    /\ pc = "lookup"
    /\ i <= Len(tax_ids)
    /\ LookupRaises(tax_ids[i])
    /\ lookups' = IF IntRaisesValueError(tax_ids[i]) THEN lookups
                  ELSE Append(lookups, PyInt(tax_ids[i]))
    /\ warnings' = Append(warnings, tax_ids[i])
    /\ i' = AfterValueError(i, Len(tax_ids))
    /\ UNCHANGED <<pc, annotation, db, tax_ids, rank_sequencevalue_hm, lineage,
                   lineageid_rank_items, taxs, enriched, chart, resolved>>

\* Lines 94 and 148: the loop is over, the table is built and returned.
ReturnLineage ==
    /\ pc = "lookup"
    /\ i > Len(tax_ids)
    /\ taxs' = FromDict(rank_sequencevalue_hm)
    /\ lineage' = <<>>
    /\ lineageid_rank_items' = <<>>
    /\ pc' = "concat"
    /\ UNCHANGED <<annotation, db, tax_ids, i, rank_sequencevalue_hm, enriched, chart,
                   lookups, warnings, resolved>>

\* Line 150.
ConcatIds ==
    /\ pc = "concat"
    /\ taxs' = Concat(tax_ids, taxs)
    /\ pc' = "merge"
    /\ UNCHANGED <<annotation, db, tax_ids, i, rank_sequencevalue_hm, lineage,
                   lineageid_rank_items, enriched, chart, lookups, warnings, resolved>>

\* Lines 151-153.
Merge ==
    /\ pc = "merge"
    /\ enriched' = MergeLeft(annotation, taxs)
    /\ pc' = "done"
    /\ UNCHANGED <<annotation, db, tax_ids, i, rank_sequencevalue_hm, lineage,
                   lineageid_rank_items, taxs, chart, lookups, warnings, resolved>>

\* sunburst, line 195.
FillnaOther ==
    /\ pc = "done"
    /\ enriched' = Fillna(enriched, "Other")
    /\ pc' = "count"
    /\ UNCHANGED <<annotation, db, tax_ids, i, rank_sequencevalue_hm, lineage,
                   lineageid_rank_items, taxs, chart, lookups, warnings, resolved>>

\* sunburst, line 197.
Count ==
    /\ pc = "count"
    /\ enriched' = [k \in 1..Len(enriched) |-> [count |-> 1] @@ enriched[k]]
    /\ pc' = "chart"
    /\ UNCHANGED <<annotation, db, tax_ids, i, rank_sequencevalue_hm, lineage,
                   lineageid_rank_items, taxs, chart, lookups, warnings, resolved>>

\* sunburst, lines 201-203.
Chart ==
    /\ pc = "chart"
    /\ \E hier \in Hiers :
          chart' = [data |-> enriched, path |-> hier, values |-> "count", color |-> hier[1]]
    /\ pc' = "charted"
    /\ UNCHANGED <<annotation, db, tax_ids, i, rank_sequencevalue_hm, lineage,
                   lineageid_rank_items, taxs, enriched, lookups, warnings, resolved>>

Next ==
    \/ Extract
    \/ UniqueIds
    \/ LookupResolved
    \/ LookupValueError
    \/ ReturnLineage
    \/ ConcatIds
    \/ Merge
    \/ FillnaOther
    \/ Count
    \/ Chart

Spec == Init /\ [][Next]_vars

\* ------------------------------------------------------------------ claims

\* The tax_ID column of a table, as a sequence.
TaxIdColumn(table) == [k \in 1..Len(table) |-> table[k].tax_ID]

Elements(s) == {s[k] : k \in 1..Len(s)}

\* Row k of table carries record rec in its rank columns.
CarriesRecord(table, k, rec) == \A rank \in Ranks : table[k][rank] = rec[rank]

\* The nodes of chain c that bear rank label r.
NodesWithRank(c, r) == {k \in 1..Len(c) : NodeRank[c[k]] = r}

LastWithRank(c, r) == c[CHOOSE k \in NodesWithRank(c, r) : \A h \in NodesWithRank(c, r) : h <= k]

\* C1: every row of get_taxa's result whose identifier resolved carries the
\* Rank Record that was resolved from that row's own tax_ID.
C1_OwnRecordOnResolvedRows ==
    pc = "done" =>
        \A k \in 1..Len(enriched) :
            enriched[k].tax_ID \in DOMAIN resolved
                => CarriesRecord(enriched, k, resolved[enriched[k].tax_ID])

\* C2: every row of get_taxa's result whose identifier failed to resolve has
\* an absent value in each of the eight rank columns.
C2_FailedRowsAbsent ==
    pc = "done" =>
        \A k \in 1..Len(enriched) :
            enriched[k].tax_ID \in Elements(warnings)
                => CarriesRecord(enriched, k, AbsentRanks)

\* C3: the table get_taxa returns has the rows of the input table, each once
\* and in the same order: no row is dropped, none is duplicated.
C3_RowCountUnchanged ==
    pc = "done" =>
        /\ Len(enriched) = Len(annotation)
        /\ \A k \in 1..Len(enriched) : enriched[k].Tax = annotation[k].Tax

C3_Witness ==
    /\ pc = "done"
    /\ warnings # <<>>
    /\ resolved # <<>>
    /\ Len(annotation) > Len(tax_ids)

\* C4: when load_taxonomy_lineage returns, every identifier of the input has
\* been handled, the failing ones by a warning and the others by a record:
\* a ValueError on one identifier does not end the loop.
C4_FailureDoesNotAbort ==
    pc = "concat" =>
        /\ Len(warnings) + Len(taxs) = Len(tax_ids)
        /\ \A k \in 1..Len(tax_ids) :
              IF LookupRaises(tax_ids[k])
              THEN tax_ids[k] \in Elements(warnings)
              ELSE tax_ids[k] \in DOMAIN resolved

C4_Witness ==
    /\ pc = "concat"
    /\ \E k \in 1..(Len(tax_ids) - 1) :
          /\ tax_ids[k] \in Elements(warnings)
          /\ tax_ids[k + 1] \in DOMAIN resolved
    /\ Len(taxs) > 0

\* C5: the Rank Record of a resolved identifier has exactly the eight
\* recognised rank keys; a key is populated exactly when its rank label occurs
\* on a node of the identifier's chain, and then with the name of such a node.
C5_RecordKeysAndValues ==
    /\ \A id \in DOMAIN resolved :
          LET chain == db[PyInt(id)]
              rec == resolved[id]
          IN /\ DOMAIN rec = {"superkingdom", "phylum", "genus", "class",
                              "subphylum", "family", "order", "species"}
             /\ \A rank \in DOMAIN rec :
                   /\ rec[rank] # Absent <=> NodesWithRank(chain, rank) # {}
                   /\ rec[rank] # Absent =>
                         \E k \in NodesWithRank(chain, rank) : NodeName[chain[k]] = rec[rank]
    /\ pc = "concat" =>
          \A k \in 1..Len(taxs) :
              DOMAIN taxs[k] = {"superkingdom", "phylum", "genus", "class",
                                "subphylum", "family", "order", "species"}

C5_Witness ==
    /\ pc = "concat"
    /\ \E id \in DOMAIN resolved :
          /\ \E k \in 1..Len(db[PyInt(id)]) : NodeRank[db[PyInt(id)][k]] \notin Ranks
          /\ resolved[id]["phylum"] # Absent
          /\ resolved[id]["species"] = Absent

\* C6 as stated: the number of get_lineage requests equals the number of
\* distinct tax_ID values of the table.
C6_OneLookupPerDistinctId ==
    pc = "concat" => Len(lookups) = Cardinality(Elements(TaxIdColumn(annotation)))

\* C6 as amended: get_lineage is requested once for each distinct tax_ID value
\* that int() accepts and not at all for one that int() rejects, however many
\* rows share an identifier.
C6_OneLookupPerDistinctIntegerId ==
    pc = "concat" =>
        LET accepted == {id \in Elements(TaxIdColumn(annotation)) : ~IntRaisesValueError(id)}
        IN /\ Len(lookups) = Cardinality(accepted)
           /\ Elements(lookups) = {PyInt(id) : id \in accepted}

C6_Witness ==
    /\ pc = "concat"
    /\ Len(lookups) > 0
    /\ Len(annotation) > Len(tax_ids)
    /\ \E id \in Elements(tax_ids) : IntRaisesValueError(id)

\* C7: the table load_taxonomy_lineage returns has one row per input
\* identifier, in input order, and each row carries its identifier.
C7_OneTaggedRecordPerIdentifier ==
    pc = "concat" =>
        /\ Len(taxs) = Len(tax_ids)
        /\ \A k \in 1..Len(taxs) :
              /\ "tax_ID" \in DOMAIN taxs[k]
              /\ taxs[k].tax_ID = tax_ids[k]

\* C8: from the substitution on, and in the table handed to the chart
\* primitive, no cell is absent; the table has the rows of the input, and a
\* rank cell holds "Other" where the joined value was absent and the joined
\* value otherwise.
C8_NoAbsentValueCharted ==
    /\ pc \in {"count", "chart", "charted"} =>
          /\ Len(enriched) = Len(annotation)
          /\ \A k \in 1..Len(enriched) :
                /\ \A col \in DOMAIN enriched[k] \ {"count"} : enriched[k][col] # Absent
                /\ enriched[k].Tax = annotation[k].Tax
                /\ \A j \in 1..Len(taxs) :
                      taxs[j].tax_ID = enriched[k].tax_ID =>
                          \A rank \in Ranks :
                              enriched[k][rank] =
                                  IF taxs[j][rank] = Absent THEN "Other" ELSE taxs[j][rank]
    /\ pc = "charted" =>
          /\ chart.data = enriched
          /\ \A k \in 1..Len(chart.data) : \A h \in 1..Len(chart.path) :
                /\ chart.path[h] \in DOMAIN chart.data[k]
                /\ chart.data[k][chart.path[h]] # Absent

C8_Witness ==
    /\ pc = "charted"
    /\ \E k \in 1..Len(chart.data) :
          /\ chart.data[k][chart.path[1]] = "Other"
          /\ chart.data[k]["phylum"] \notin {"Other", Absent}
    /\ \E k \in 1..Len(chart.data) : \A rank \in Ranks : chart.data[k][rank] = "Other"

\* C9 as stated: when several nodes of the chain bear the same recognised
\* rank, the name recorded is that of the last of them in chain order.
C9_LaterInChainWins ==
    (pc = "lookup" /\ lineage # <<>>) =>
        \A rank \in Ranks :
            Cardinality(NodesWithRank(lineage, rank)) > 1 =>
                LET column == rank_sequencevalue_hm[rank]
                IN column[Len(column)] = NodeName[LastWithRank(lineage, rank)]

\* C9 as amended: when several nodes of the chain bear the same recognised
\* rank, the name recorded is that of the last of them in the iteration order
\* of the mapping get_rank returned.
C9_LaterInRankMappingWins ==
    (pc = "lookup" /\ lineage # <<>>) =>
        \A rank \in Ranks :
            Cardinality(NodesWithRank(lineage, rank)) > 1 =>
                LET column == rank_sequencevalue_hm[rank]
                IN column[Len(column)] = NodeName[LastWithRank(lineageid_rank_items, rank)]

C9_Witness ==
    /\ pc = "lookup"
    /\ lineage # <<>>
    /\ Cardinality(NodesWithRank(lineage, "phylum")) > 1
    /\ LastWithRank(lineage, "phylum") # LastWithRank(lineageid_rank_items, "phylum")

\* Position of the first identifier of tax_ids whose lookup failed; past the
\* end if none failed.
FirstFailure ==
    IF \E k \in 1..Len(tax_ids) : tax_ids[k] \in Elements(warnings)
    THEN CHOOSE k \in 1..Len(tax_ids) :
            /\ tax_ids[k] \in Elements(warnings)
            /\ \A h \in 1..(k - 1) : tax_ids[h] \notin Elements(warnings)
    ELSE Len(tax_ids) + 1

\* C10: the k-th row of the resolver's table is paired with the k-th distinct
\* identifier; when every identifier resolves the resolver returns one row per
\* distinct identifier and every row of the result carries its own record; and
\* a row whose identifier precedes the first failing one carries its own record.
C10_PositionalPairing ==
    pc = "done" =>
        LET rows == FromDict(rank_sequencevalue_hm)
        IN /\ \A k \in 1..Len(rows) :
                 taxs[k].tax_ID = tax_ids[k] /\ CarriesRecord(taxs, k, rows[k])
           /\ warnings = <<>> =>
                 /\ Len(rows) = Len(tax_ids)
                 /\ \A k \in 1..Len(enriched) :
                       CarriesRecord(enriched, k, resolved[enriched[k].tax_ID])
           /\ \A k \in 1..Len(enriched) : \A h \in 1..(FirstFailure - 1) :
                 enriched[k].tax_ID = tax_ids[h] =>
                     CarriesRecord(enriched, k, resolved[tax_ids[h]])

C10_Witness ==
    /\ pc = "done"
    /\ FirstFailure = 2
    /\ Len(tax_ids) = 3
    /\ enriched[1]["phylum"] # Absent
    /\ enriched[1].tax_ID = tax_ids[1]

====
